---- MODULE Spec2Model ----
(***************************************************************************)
(* pantalaimon/ui.py: the D-Bus control surface of the pantalaimon daemon. *)
(*                                                                         *)
(* Control and Devices turn method calls into messages on send_queue and   *)
(* answer queries from two caches; GlibT.message_callback, a GLib timeout  *)
(* callback, takes one message per tick from receive_queue, refreshes a    *)
(* cache or emits a D-Bus signal, and optionally shows a notification      *)
(* whose actions call back into Control / Devices.                         *)
(*                                                                         *)
(* Python values are modelled as follows:                                  *)
(*   - a message object is a record with a "kind" field naming its class;  *)
(*   - a dict is a sequence of <<key, value>> pairs in insertion order;    *)
(*   - the result of dict.get(k, None) is <<v>> when k is present and <<>> *)
(*     (None) when it is absent;                                           *)
(*   - the outcome of a call is [exc, val]: exc = "none" and the returned  *)
(*     value, or the name of the exception that left the call.             *)
(***************************************************************************)
EXTENDS Integers, Sequences, FiniteSets, TLC

(***************************************************************************)
(* Bounds of the exploration.                                              *)
(***************************************************************************)
\* commands issued in one run (caps IdCounter._message_id)
MaxId == 2
\* messages the worker puts on receive_queue in one run
MaxEvents == 2
\* store writes of the worker that fall between two load_users calls
MaxMidWrites == 2

(***************************************************************************)
(* Input domains.  One value per field is enough to tell the fields apart  *)
(* (every field has values no other field has); pan_user has two.          *)
(***************************************************************************)
PanUsers == {"alice", "bob"}
FilePaths == {"/k"}
Passphrases == {"pw"}
RoomIds == {"!r"}
UserIds == {"@u"}
DeviceIds == {"DEV"}
TransactionIds == {"txn"}
RoomNames == {"Room"}
Emojis == {<< <<"e1", "Dog">>, <<"e2", "Cat">> >>}
Codes == {"m.ok"}
Texts == {"done"}

\* GlibT.server_list: the configured servers, by name.
ServerList == <<"s1", "s2">>
ServerNames == {ServerList[i] : i \in DOMAIN ServerList}

\* What PanStore.load_users(server) can return: a list of (user_id, device_id).
UserLists == {<<>>, << <<"@a", "DA">> >>}

\* What PanStore.load_all_devices() can return:
\* pan_user -> user_id -> device_id -> device record.
DeviceRecord(u, d, t) == [user_id |-> u, device_id |-> d, trust_state |-> t]
DevicesEmpty == <<>>
DevicesSome ==
    << <<"alice", << <<"@u", << <<"D1", DeviceRecord("@u", "D1", "verified")>>,
                               <<"D2", DeviceRecord("@u", "D2", "unset")>> >> >>,
                     <<"@w", << <<"D3", DeviceRecord("@w", "D3", "blacklisted")>> >> >>,
                     <<"@v", <<>> >> >> >>,
       <<"bob", <<>> >> >>
DeviceStores == {DevicesEmpty, DevicesSome}

\* Arguments tried on the queries: present and absent accounts and users.
QueryAccounts == {"alice", "bob", "carol"}
QueryUsers == {"@u", "@v", "@x"}

VARIABLES
    message_id,        \* IdCounter._message_id, shared by Control and Devices
    send_queue,        \* GlibT.send_queue: commands for the worker
    receive_queue,     \* GlibT.receive_queue: messages from the worker
    unfinished,        \* receive_queue.unfinished_tasks (put: +1, task_done: -1)
    users,             \* Control.users: server name -> list of users
    device_list,       \* Devices.device_list
    store_users,       \* PanStore: users per server
    store_devices,     \* PanStore: all devices
    config,            \* GlibT.config.notifications
    notifications,     \* GlibT.notifications
    initted,           \* notify2 has a connection to a notification server
    loop,              \* GlibT.loop: "None" or "MainLoop"
    pc,                \* the thread in run(): "start", "setup", "looping", "exited"
    source,            \* the timeout source of message_callback is attached
    notes,             \* notifications on screen that offer actions
    signals,           \* D-Bus signals emitted so far, in order
    handled,           \* messages message_callback has taken, in order
    returned,          \* ids returned by command calls, in call order
    taken,             \* ids of the commands the worker has taken, in order
    nput,              \* number of messages the worker has put
    boot_devices,      \* store_devices as it was at construction
    stopped,           \* stop() has been called
    last               \* the most recent query or tick and its outcome

vars == <<message_id, send_queue, receive_queue, unfinished, users, device_list,
          store_users, store_devices, config, notifications, initted, loop, pc,
          source, notes, signals, handled, returned, taken, nput, boot_devices,
          stopped, last>>

\* Groups used in the frame conditions.
queueVars == <<send_queue, receive_queue, unfinished>>
cacheVars == <<users, device_list>>
storeVars == <<store_users, store_devices, boot_devices>>
loopVars == <<config, notifications, initted, loop, pc, source, stopped>>
logVars == <<signals, handled, returned, taken, nput>>

Outcome(e, v) == [exc |-> e, val |-> v]

\* The values calls return, as `last` keeps them: one shape per Python type.
PyNone == [none |-> TRUE]
PyTrue == [bool |-> TRUE]
PyList(seq) == [list |-> seq]
PyDict(d) == [dict |-> d]
Call(o, e, v) == [op |-> o, args |-> <<>>, exc |-> e, val |-> v]
CallWith(o, a, e, v) == [op |-> o, args |-> a, exc |-> e, val |-> v]

(***************************************************************************)
(* Python dict helpers.                                                    *)
(***************************************************************************)
\* d.get(k, None)
Get(d, k) ==
    LET hits == SelectSeq(d, LAMBDA e : e[1] = k)
    IN  IF hits = <<>> THEN <<>> ELSE <<hits[1][2]>>

\* list(d.values())
RECURSIVE Values(_)
Values(d) == IF d = <<>> THEN <<>> ELSE <<d[1][2]>> \o Values(Tail(d))

\* [x for xs in lists for x in xs]
RECURSIVE Concat(_)
Concat(lists) == IF lists = <<>> THEN <<>> ELSE lists[1] \o Concat(Tail(lists))

\* `not x` for x the result of a dict.get whose values are dicts:
\* None and the empty dict are both falsy.
Falsy(opt) == opt = <<>> \/ opt[1] = <<>>

(***************************************************************************)
(* The message classes of pantalaimon.thread_messages, as ui.py builds and *)
(* reads them.                                                             *)
(***************************************************************************)
ExportKeysMessage(id, pan_user, file_path, passphrase) ==
    [kind |-> "ExportKeysMessage", message_id |-> id, pan_user |-> pan_user,
     file_path |-> file_path, passphrase |-> passphrase]
ImportKeysMessage(id, pan_user, file_path, passphrase) ==
    [kind |-> "ImportKeysMessage", message_id |-> id, pan_user |-> pan_user,
     file_path |-> file_path, passphrase |-> passphrase]
SendAnywaysMessage(id, pan_user, room_id) ==
    [kind |-> "SendAnywaysMessage", message_id |-> id, pan_user |-> pan_user,
     room_id |-> room_id]
CancelSendingMessage(id, pan_user, room_id) ==
    [kind |-> "CancelSendingMessage", message_id |-> id, pan_user |-> pan_user,
     room_id |-> room_id]
DeviceMessage(kind, id, pan_user, user_id, device_id) ==
    [kind |-> kind, message_id |-> id, pan_user |-> pan_user,
     user_id |-> user_id, device_id |-> device_id]
DeviceVerifyMessage(id, p, u, d) == DeviceMessage("DeviceVerifyMessage", id, p, u, d)
DeviceUnverifyMessage(id, p, u, d) == DeviceMessage("DeviceUnverifyMessage", id, p, u, d)
DeviceBlacklistMessage(id, p, u, d) == DeviceMessage("DeviceBlacklistMessage", id, p, u, d)
DeviceUnblacklistMessage(id, p, u, d) == DeviceMessage("DeviceUnblacklistMessage", id, p, u, d)
StartSasMessage(id, p, u, d) == DeviceMessage("StartSasMessage", id, p, u, d)
CancelSasMessage(id, p, u, d) == DeviceMessage("CancelSasMessage", id, p, u, d)
ConfirmSasMessage(id, p, u, d) == DeviceMessage("ConfirmSasMessage", id, p, u, d)
AcceptSasMessage(id, p, u, d) == DeviceMessage("AcceptSasMessage", id, p, u, d)

\* Messages from the worker.
UpdateDevicesMessage == [kind |-> "UpdateDevicesMessage"]
UpdateUsersMessage == [kind |-> "UpdateUsersMessage"]
UnverifiedDevicesSignal(pan_user, room_id, room_display_name) ==
    [kind |-> "UnverifiedDevicesSignal", pan_user |-> pan_user, room_id |-> room_id,
     room_display_name |-> room_display_name]
SasSignal(kind, pan_user, user_id, device_id, transaction_id) ==
    [kind |-> kind, pan_user |-> pan_user, user_id |-> user_id,
     device_id |-> device_id, transaction_id |-> transaction_id]
InviteSasSignal(p, u, d, t) == SasSignal("InviteSasSignal", p, u, d, t)
ShowSasSignal(p, u, d, t, emoji) ==
    [kind |-> "ShowSasSignal", pan_user |-> p, user_id |-> u, device_id |-> d,
     transaction_id |-> t, emoji |-> emoji]
SasDoneSignal(p, u, d, t) == SasSignal("SasDoneSignal", p, u, d, t)
DaemonResponse(id, pan_user, code, message) ==
    [kind |-> "DaemonResponse", message_id |-> id, pan_user |-> pan_user,
     code |-> code, message |-> message]
\* A message of a class message_callback has no branch for.
OtherMessage == [kind |-> "SasCancelSignal"]

(***************************************************************************)
(* Construction: GlibT.__attrs_post_init__ builds one IdCounter, Control   *)
(* (whose __init__ runs update_users) and Devices (whose __init__ runs     *)
(* update_devices).  The store is persistent: it may hold users and        *)
(* devices from earlier runs.                                              *)
(***************************************************************************)
Init ==
    /\ message_id = 0
    /\ send_queue = <<>>
    /\ receive_queue = <<>>
    /\ unfinished = 0
    /\ store_users \in [ServerNames -> UserLists]
    /\ store_devices \in DeviceStores
    /\ users = store_users
    /\ device_list = store_devices
    /\ boot_devices = store_devices
    /\ config \in BOOLEAN
    /\ notifications = FALSE
    /\ initted = FALSE
    /\ loop = "None"
    /\ pc = "start"
    /\ source = FALSE
    /\ notes = <<>>
    /\ signals = <<>>
    /\ handled = <<>>
    /\ returned = <<>>
    /\ taken = <<>>
    /\ nput = 0
    /\ stopped = FALSE
    /\ last = Call("__attrs_post_init__", "none", PyNone)

\* A faulty counter, for comparison: it hands out its value and stays there.
IdCounter_not_advancing == [ret |-> message_id, next |-> message_id]

\* A faulty counter, for comparison: it advances before it reads (returns 1, 2, ...).
IdCounter_advance_first == [ret |-> message_id + 1, next |-> message_id + 1]

(***************************************************************************)
(* IdCounter.message_id: returns the counter and advances it.              *)
(***************************************************************************)
IdCounter_message_id == [ret |-> message_id, next |-> message_id + 1]

\* A faulty put, for comparison: the message goes to the head of the queue.
Submit_at_head(message) ==
    /\ message_id' = IdCounter_message_id.next
    /\ send_queue' = <<message>> \o send_queue
    /\ returned' = Append(returned, message.message_id)

\* The common tail of every command method:
\*     self.queue.put(message); return message.message_id
\* after the message took its id from the counter.
Submit(message) ==
    /\ message_id' = IdCounter_message_id.next
    /\ send_queue' = Append(send_queue, message)
    /\ returned' = Append(returned, message.message_id)

(***************************************************************************)
(* The bodies of the command methods of Control and Devices.               *)
(***************************************************************************)
ExportKeys_body(pan_user, filepath, passphrase) ==
    Submit(ExportKeysMessage(IdCounter_message_id.ret, pan_user, filepath, passphrase))
ImportKeys_body(pan_user, filepath, passphrase) ==
    Submit(ImportKeysMessage(IdCounter_message_id.ret, pan_user, filepath, passphrase))
SendAnyways_body(pan_user, room_id) ==
    Submit(SendAnywaysMessage(IdCounter_message_id.ret, pan_user, room_id))
CancelSending_body(pan_user, room_id) ==
    Submit(CancelSendingMessage(IdCounter_message_id.ret, pan_user, room_id))
Verify_body(pan_user, user_id, device_id) ==
    Submit(DeviceVerifyMessage(IdCounter_message_id.ret, pan_user, user_id, device_id))
\* A faulty Unverify, for comparison: it builds the message of Verify.
Unverify_as_verify(pan_user, user_id, device_id) ==
    Submit(DeviceVerifyMessage(IdCounter_message_id.ret, pan_user, user_id, device_id))
Unverify_body(pan_user, user_id, device_id) ==
    Submit(DeviceUnverifyMessage(IdCounter_message_id.ret, pan_user, user_id, device_id))
Blacklist_body(pan_user, user_id, device_id) ==
    Submit(DeviceBlacklistMessage(IdCounter_message_id.ret, pan_user, user_id, device_id))
Unblacklist_body(pan_user, user_id, device_id) ==
    Submit(DeviceUnblacklistMessage(IdCounter_message_id.ret, pan_user, user_id, device_id))
StartKeyVerification_body(pan_user, user_id, device_id) ==
    Submit(StartSasMessage(IdCounter_message_id.ret, pan_user, user_id, device_id))
CancelKeyVerification_body(pan_user, user_id, device_id) ==
    Submit(CancelSasMessage(IdCounter_message_id.ret, pan_user, user_id, device_id))
ConfirmKeyVerification_body(pan_user, user_id, device_id) ==
    Submit(ConfirmSasMessage(IdCounter_message_id.ret, pan_user, user_id, device_id))
AcceptKeyVerification_body(pan_user, user_id, device_id) ==
    Submit(AcceptSasMessage(IdCounter_message_id.ret, pan_user, user_id, device_id))

(***************************************************************************)
(* A command method called over D-Bus.  The counter is capped at MaxId.    *)
(***************************************************************************)
commandFrame == <<receive_queue, unfinished, cacheVars, storeVars, loopVars,
                  notes, signals, handled, taken, nput, last>>

ExportKeys(pan_user, filepath, passphrase) ==
    /\ message_id < MaxId
    /\ ExportKeys_body(pan_user, filepath, passphrase)
    /\ UNCHANGED commandFrame

ImportKeys(pan_user, filepath, passphrase) ==
    /\ message_id < MaxId
    /\ ImportKeys_body(pan_user, filepath, passphrase)
    /\ UNCHANGED commandFrame

SendAnyways(pan_user, room_id) ==
    /\ message_id < MaxId
    /\ SendAnyways_body(pan_user, room_id)
    /\ UNCHANGED commandFrame

CancelSending(pan_user, room_id) ==
    /\ message_id < MaxId
    /\ CancelSending_body(pan_user, room_id)
    /\ UNCHANGED commandFrame

Verify(pan_user, user_id, device_id) ==
    /\ message_id < MaxId
    /\ Verify_body(pan_user, user_id, device_id)
    /\ UNCHANGED commandFrame

Unverify(pan_user, user_id, device_id) ==
    /\ message_id < MaxId
    /\ Unverify_body(pan_user, user_id, device_id)
    /\ UNCHANGED commandFrame

Blacklist(pan_user, user_id, device_id) ==
    /\ message_id < MaxId
    /\ Blacklist_body(pan_user, user_id, device_id)
    /\ UNCHANGED commandFrame

Unblacklist(pan_user, user_id, device_id) ==
    /\ message_id < MaxId
    /\ Unblacklist_body(pan_user, user_id, device_id)
    /\ UNCHANGED commandFrame

StartKeyVerification(pan_user, user_id, device_id) ==
    /\ message_id < MaxId
    /\ StartKeyVerification_body(pan_user, user_id, device_id)
    /\ UNCHANGED commandFrame

CancelKeyVerification(pan_user, user_id, device_id) ==
    /\ message_id < MaxId
    /\ CancelKeyVerification_body(pan_user, user_id, device_id)
    /\ UNCHANGED commandFrame

ConfirmKeyVerification(pan_user, user_id, device_id) ==
    /\ message_id < MaxId
    /\ ConfirmKeyVerification_body(pan_user, user_id, device_id)
    /\ UNCHANGED commandFrame

AcceptKeyVerification(pan_user, user_id, device_id) ==
    /\ message_id < MaxId
    /\ AcceptKeyVerification_body(pan_user, user_id, device_id)
    /\ UNCHANGED commandFrame

(***************************************************************************)
(* The queries.  Each returns from the cache and changes nothing.          *)
(***************************************************************************)
\* Control.ListServers: return self.users
ListServers_ret == Outcome("none", users)

\* Devices.List
List_ret(pan_user) ==
    LET device_store == Get(device_list, pan_user)
    IN  IF Falsy(device_store)
        THEN Outcome("none", <<>>)
        ELSE LET stores == Values(device_store[1])
             IN  Outcome("none",
                         Concat([i \in DOMAIN stores |-> Values(stores[i])]))

\* A faulty ListUserDevices, for comparison: without the second `if not`, an
\* absent user leaves None.values() to raise.
ListUserDevices_unguarded(pan_user, user_id) ==
    LET device_store == Get(device_list, pan_user)
    IN  IF Falsy(device_store)
        THEN Outcome("none", <<>>)
        ELSE LET devices == Get(device_store[1], user_id)
             IN  IF devices = <<>>
                 THEN Outcome("AttributeError", <<>>)
                 ELSE Outcome("none", Values(devices[1]))

\* Devices.ListUserDevices
ListUserDevices_ret(pan_user, user_id) ==
    LET device_store == Get(device_list, pan_user)
    IN  IF Falsy(device_store)
        THEN Outcome("none", <<>>)
        ELSE LET devices == Get(device_store[1], user_id)
             IN  IF Falsy(devices)
                 THEN Outcome("none", <<>>)
                 ELSE Outcome("none", Values(devices[1]))

queryFrame == <<message_id, queueVars, cacheVars, storeVars, loopVars, notes, logVars>>

ListServers ==
    /\ last' = CallWith("ListServers", <<>>, ListServers_ret.exc,
                        PyDict(ListServers_ret.val))
    /\ UNCHANGED queryFrame

\* A faulty List, for comparison: it looks the account up with
\* setdefault(pan_user, {}), which adds an absent account to the cache.
List_setdefault(pan_user) ==
    /\ last' = CallWith("List", <<pan_user>>, List_ret(pan_user).exc,
                        PyList(List_ret(pan_user).val))
    /\ device_list' = IF Get(device_list, pan_user) = <<>>
                      THEN Append(device_list, <<pan_user, <<>> >>)
                      ELSE device_list
    /\ UNCHANGED <<message_id, queueVars, users, storeVars, loopVars, notes, logVars>>

List(pan_user) ==
    /\ last' = CallWith("List", <<pan_user>>, List_ret(pan_user).exc,
                        PyList(List_ret(pan_user).val))
    /\ UNCHANGED queryFrame

ListUserDevices(pan_user, user_id) ==
    /\ last' = CallWith("ListUserDevices", <<pan_user, user_id>>,
                        ListUserDevices_ret(pan_user, user_id).exc,
                        PyList(ListUserDevices_ret(pan_user, user_id).val))
    /\ UNCHANGED queryFrame

(***************************************************************************)
(* The cache rebuilds.                                                     *)
(*                                                                         *)
(* update_users calls store.load_users once per configured server.  The    *)
(* worker writes the store from its own thread, so writes can fall between *)
(* two of these calls: gaps[i] are the writes that land after the i-th     *)
(* load and before the next one.                                           *)
(***************************************************************************)
StoreWrites == ServerNames \X UserLists
WriteSeqs == UNION {[1..n -> StoreWrites] : n \in 0..MaxMidWrites}
GapPlans == [1..(Len(ServerList) - 1) -> WriteSeqs]
NoWrites == [i \in 1..(Len(ServerList) - 1) |-> <<>>]

RECURSIVE ApplyWrites(_, _)
ApplyWrites(st, ws) ==
    IF ws = <<>> THEN st
    ELSE ApplyWrites([st EXCEPT ![ws[1][1]] = ws[1][2]], Tail(ws))

\* for server in self.server_list:
\*     self.users[server.name] = self.store.load_users(server.name)
RECURSIVE update_users_from(_, _, _, _)
update_users_from(i, u, st, gaps) ==
    IF i > Len(ServerList) THEN [users |-> u, store |-> st]
    ELSE LET name == ServerList[i]
             loaded == [u EXCEPT ![name] = st[name]]
             after == IF i < Len(ServerList) THEN ApplyWrites(st, gaps[i]) ELSE st
         IN  update_users_from(i + 1, loaded, after, gaps)

update_users(gaps) == update_users_from(1, users, store_users, gaps)

\* self.device_list = self.store.load_all_devices()
update_devices == store_devices

(***************************************************************************)
(* Notifications.  srv is what the notification server does when asked:    *)
(* "actions" (it has the actions capability), "plain" (it has not) or      *)
(* "gone" (the D-Bus call fails).  Without an initialised notify2 every    *)
(* call to the server fails.                                               *)
(***************************************************************************)
Servers == {"actions", "plain", "gone"}

Note(kind, message, actions) ==
    [kind |-> kind, user_data |-> message, actions |-> actions]

Shown(kind, message, offered, srv) ==
    IF ~initted \/ srv = "gone"
    THEN [exc |-> "DBusException", notes |-> <<>>]
    ELSE [exc |-> "none",
          notes |-> <<Note(kind, message, IF srv = "actions" THEN offered ELSE {})>>]

unverified_notification(message, srv) ==
    Shown("unverified", message, {"send", "cancel"}, srv)
sas_invite_notification(message, srv) ==
    Shown("sas_invite", message, {"accept", "cancel"}, srv)
sas_show_notification(message, srv) ==
    Shown("sas_show", message, {"confirm", "cancel"}, srv)
\* no actions are added, whatever the server can do
sas_done_notification(message, srv) ==
    Shown("sas_done", message, {}, IF srv = "actions" THEN "plain" ELSE srv)

\* The action callbacks: each calls one command method with the fields of the
\* message the notification was built from.
unverified_send_cb(message) == SendAnyways_body(message.pan_user, message.room_id)
\* A faulty cancel callback, for comparison: it sends anyways.
unverified_cancel_sends(message) == SendAnyways_body(message.pan_user, message.room_id)
unverified_cancel_cb(message) == CancelSending_body(message.pan_user, message.room_id)
sas_invite_accept_cb(message) ==
    AcceptKeyVerification_body(message.pan_user, message.user_id, message.device_id)
sas_invite_cancel_cb(message) ==
    CancelKeyVerification_body(message.pan_user, message.user_id, message.device_id)
sas_show_confirm_cb(message) ==
    ConfirmKeyVerification_body(message.pan_user, message.user_id, message.device_id)
sas_show_cancel_cb(message) ==
    CancelKeyVerification_body(message.pan_user, message.user_id, message.device_id)

Callback(note, key) ==
    CASE note.kind = "unverified" /\ key = "send" -> unverified_send_cb(note.user_data)
      [] note.kind = "unverified" /\ key = "cancel" -> unverified_cancel_cb(note.user_data)
      [] note.kind = "sas_invite" /\ key = "accept" -> sas_invite_accept_cb(note.user_data)
      [] note.kind = "sas_invite" /\ key = "cancel" -> sas_invite_cancel_cb(note.user_data)
      [] note.kind = "sas_show" /\ key = "confirm" -> sas_show_confirm_cb(note.user_data)
      [] note.kind = "sas_show" /\ key = "cancel" -> sas_show_cancel_cb(note.user_data)

Without(seq, i) == SubSeq(seq, 1, i - 1) \o SubSeq(seq, i + 1, Len(seq))

\* The user picks action `key` of the i-th notification; the main loop delivers
\* it to the callback, and the server closes the notification.
NotificationAction(i, key) ==
    /\ pc = "looping"
    /\ message_id < MaxId
    /\ i \in DOMAIN notes
    /\ key \in notes[i].actions
    /\ Callback(notes[i], key)
    /\ notes' = Without(notes, i)
    /\ UNCHANGED <<receive_queue, unfinished, cacheVars, storeVars, loopVars,
                   signals, handled, taken, nput, last>>

(***************************************************************************)
(* The D-Bus signals message_callback emits.                               *)
(***************************************************************************)
UnverifiedDevices_signal(message) ==
    [name |-> "UnverifiedDevices", pan_user |-> message.pan_user,
     room_id |-> message.room_id, room_display_name |-> message.room_display_name]
VerificationInvite_signal(message) ==
    [name |-> "VerificationInvite", pan_user |-> message.pan_user,
     user_id |-> message.user_id, device_id |-> message.device_id,
     transaction_id |-> message.transaction_id]
\* A faulty VerificationString, for comparison: the emoji come in reverse order.
VerificationString_reversed(message) ==
    [name |-> "VerificationString", pan_user |-> message.pan_user,
     user_id |-> message.user_id, device_id |-> message.device_id,
     transaction_id |-> message.transaction_id,
     emoji |-> [i \in DOMAIN message.emoji |->
                   message.emoji[Len(message.emoji) + 1 - i]]]
VerificationString_signal(message) ==
    [name |-> "VerificationString", pan_user |-> message.pan_user,
     user_id |-> message.user_id, device_id |-> message.device_id,
     transaction_id |-> message.transaction_id, emoji |-> message.emoji]
VerificationDone_signal(message) ==
    [name |-> "VerificationDone", pan_user |-> message.pan_user,
     user_id |-> message.user_id, device_id |-> message.device_id,
     transaction_id |-> message.transaction_id]
\* A faulty Response, for comparison: it carries the counter's value, not the
\* id of the message.
Response_with_counter(message) ==
    [name |-> "Response", id |-> message_id, pan_user |-> message.pan_user,
     message |-> [code |-> message.code, message |-> message.message]]
Response_signal(message) ==
    [name |-> "Response", id |-> message.message_id, pan_user |-> message.pan_user,
     message |-> [code |-> message.code, message |-> message.message]]

\* A faulty relay, for comparison: a message of an unknown class is relayed
\* as a Response.
Emitted_relays_unknown(message) ==
    CASE message.kind = "UnverifiedDevicesSignal" -> <<UnverifiedDevices_signal(message)>>
      [] message.kind = "InviteSasSignal" -> <<VerificationInvite_signal(message)>>
      [] message.kind = "ShowSasSignal" -> <<VerificationString_signal(message)>>
      [] message.kind = "SasDoneSignal" -> <<VerificationDone_signal(message)>>
      [] message.kind = "DaemonResponse" -> <<Response_signal(message)>>
      [] message.kind \in {"UpdateDevicesMessage", "UpdateUsersMessage"} -> <<>>
      [] OTHER -> <<[name |-> "Response", id |-> 0, pan_user |-> "",
                     message |-> [code |-> "", message |-> ""]]>>

\* The signals one message makes message_callback emit.
Emitted(message) ==
    CASE message.kind = "UnverifiedDevicesSignal" -> <<UnverifiedDevices_signal(message)>>
      [] message.kind = "InviteSasSignal" -> <<VerificationInvite_signal(message)>>
      [] message.kind = "ShowSasSignal" -> <<VerificationString_signal(message)>>
      [] message.kind = "SasDoneSignal" -> <<VerificationDone_signal(message)>>
      [] message.kind = "DaemonResponse" -> <<Response_signal(message)>>
      [] OTHER -> <<>>

\* The `if self.notifications:` parts of message_callback.
Notified(message, srv) ==
    IF ~notifications THEN [exc |-> "none", notes |-> <<>>]
    ELSE CASE message.kind = "UnverifiedDevicesSignal" ->
                  unverified_notification(message, srv)
           [] message.kind = "InviteSasSignal" -> sas_invite_notification(message, srv)
           [] message.kind = "ShowSasSignal" -> sas_show_notification(message, srv)
           [] message.kind = "SasDoneSignal" -> sas_done_notification(message, srv)
           [] OTHER -> [exc |-> "none", notes |-> <<>>]

\* The inputs of one tick that matter for the message at hand: the store writes
\* racing with update_users, and the notification server's answer.
Races(message) ==
    IF message.kind = "UpdateUsersMessage" THEN GapPlans ELSE {NoWrites}
Answers(message) ==
    IF notifications /\ message.kind \in {"UnverifiedDevicesSignal", "InviteSasSignal",
                                          "ShowSasSignal", "SasDoneSignal"}
    THEN Servers ELSE {"plain"}

\* What the two cache branches of message_callback leave in the caches.
\* A faulty dispatch, for comparison: UpdateUsersMessage reloads the devices too.
devices_after_any_update(message) ==
    IF message.kind \in {"UpdateDevicesMessage", "UpdateUsersMessage"}
    THEN update_devices ELSE device_list

devices_after(message) ==
    IF message.kind = "UpdateDevicesMessage" THEN update_devices ELSE device_list

\* A faulty dispatch, for comparison: UpdateDevicesMessage reloads the users too.
users_after_any_update(message, gaps) ==
    IF message.kind \in {"UpdateDevicesMessage", "UpdateUsersMessage"}
    THEN update_users(gaps)
    ELSE [users |-> users, store |-> store_users]

users_after(message, gaps) ==
    IF message.kind = "UpdateUsersMessage"
    THEN update_users(gaps)
    ELSE [users |-> users, store |-> store_users]

(***************************************************************************)
(* GlibT.message_callback, one call by the main loop.  It returns True, or *)
(* an exception leaves it: GLib then drops the timeout source, as it does  *)
(* for any callback that does not return True.                             *)
(*                                                                         *)
(* dispatch is the part after get_nowait() handed out `message` and left   *)
(* `rest` in the queue.                                                    *)
(***************************************************************************)
\* A faulty dispatch, for comparison: it accepts an invitation by itself,
\* without waiting for the user to pick the action.
dispatch_accepting(message, rest) ==
    /\ receive_queue' = rest
    /\ handled' = Append(handled, message)
    /\ device_list' = devices_after(message)
    /\ signals' = signals \o Emitted(message)
    /\ \E gaps \in Races(message), srv \in Answers(message) :
           LET rebuilt == users_after(message, gaps)
               shown == Notified(message, srv)
           IN  /\ users' = rebuilt.users
               /\ store_users' = rebuilt.store
               /\ notes' = notes \o shown.notes
               /\ IF shown.exc = "none"
                  THEN /\ unfinished' = unfinished - 1
                       /\ source' = source
                       /\ last' = Call("message_callback", "none", PyTrue)
                  ELSE /\ unfinished' = unfinished
                       /\ source' = FALSE
                       /\ last' = Call("message_callback", shown.exc, PyNone)
    /\ IF message.kind = "InviteSasSignal" /\ message_id < MaxId
       THEN AcceptKeyVerification_body(message.pan_user, message.user_id,
                                       message.device_id)
       ELSE UNCHANGED <<message_id, send_queue, returned>>
    /\ UNCHANGED <<store_devices, boot_devices, config, notifications, initted,
                   loop, pc, stopped, taken, nput>>

dispatch(message, rest) ==
    /\ receive_queue' = rest
    /\ handled' = Append(handled, message)
    /\ device_list' = devices_after(message)
    /\ signals' = signals \o Emitted(message)
    /\ \E gaps \in Races(message), srv \in Answers(message) :
           LET rebuilt == users_after(message, gaps)
               shown == Notified(message, srv)
           IN  /\ users' = rebuilt.users
               /\ store_users' = rebuilt.store
               /\ notes' = notes \o shown.notes
               /\ IF shown.exc = "none"
                  THEN /\ unfinished' = unfinished - 1
                       /\ source' = source
                       /\ last' = Call("message_callback", "none", PyTrue)
                  ELSE /\ unfinished' = unfinished
                       /\ source' = FALSE
                       /\ last' = Call("message_callback", shown.exc, PyNone)
    /\ UNCHANGED <<message_id, send_queue, store_devices, boot_devices,
                   config, notifications, initted, loop, pc, stopped,
                   returned, taken, nput>>

\* A faulty tick, for comparison: it takes with a blocking get(), so it waits
\* while the queue is empty.
message_callback_blocking ==
    /\ pc = "looping"
    /\ source
    /\ receive_queue # <<>>
    /\ dispatch(Head(receive_queue), Tail(receive_queue))

\* A faulty tick, for comparison: it takes the newest message, not the oldest.
message_callback_newest ==
    /\ pc = "looping"
    /\ source
    /\ IF receive_queue = <<>>
       THEN /\ last' = Call("message_callback", "none", PyTrue)
            /\ UNCHANGED <<message_id, queueVars, cacheVars, storeVars, loopVars,
                           notes, logVars>>
       ELSE dispatch(receive_queue[Len(receive_queue)],
                     SubSeq(receive_queue, 1, Len(receive_queue) - 1))

message_callback ==
    /\ pc = "looping"
    /\ source
    /\ IF receive_queue = <<>>
       THEN /\ last' = Call("message_callback", "none", PyTrue)
            /\ UNCHANGED <<message_id, queueVars, cacheVars, storeVars, loopVars,
                           notes, logVars>>
       ELSE dispatch(Head(receive_queue), Tail(receive_queue))

(***************************************************************************)
(* GlibT.run, in two steps: up to GLib.timeout_add, and from there into    *)
(* loop.run().  ok says whether notify2.init finds a notification server.  *)
(***************************************************************************)
\* A faulty run, for comparison: it enables notifications whether or not
\* notify2.init found a server.
run_notifications_regardless(ok) == IF config THEN TRUE ELSE notifications

run_notifications(ok) == IF config THEN ok ELSE notifications

run_setup ==
    /\ pc = "start"
    /\ \E ok \in BOOLEAN :
          /\ notifications' = run_notifications(ok)
          /\ initted' = (config /\ ok)
    /\ loop' = "MainLoop"
    /\ pc' = "setup"
    /\ UNCHANGED <<message_id, queueVars, cacheVars, storeVars, config, source,
                   stopped, notes, logVars, last>>

\* self.loop.run().  When stop() has set self.loop to None in between, the
\* statement raises AttributeError and run() ends; when stop() falls between
\* the read of self.loop and the call, its quit() is forgotten, because
\* MainLoop.run() sets the loop running.
run_loop ==
    /\ pc = "setup"
    /\ \/ /\ source' = TRUE
          /\ pc' = "looping"
       \/ /\ loop = "None"
          /\ source' = source
          /\ pc' = "exited"
    /\ UNCHANGED <<message_id, queueVars, cacheVars, storeVars, config,
                   notifications, initted, loop, stopped, notes, logVars, last>>

\* A faulty stop, for comparison: it also empties the queue of commands.
stop_discarding ==
    /\ IF loop # "None"
       THEN /\ pc' = IF pc = "looping" THEN "exited" ELSE pc
            /\ loop' = "None"
       ELSE UNCHANGED <<pc, loop>>
    /\ stopped' = TRUE
    /\ send_queue' = <<>>
    /\ UNCHANGED <<message_id, receive_queue, unfinished, cacheVars, storeVars,
                   config, notifications, initted, source, notes, logVars, last>>

\* GlibT.stop, called from the daemon's thread.
stop ==
    /\ IF loop # "None"
       THEN /\ pc' = IF pc = "looping" THEN "exited" ELSE pc
            /\ loop' = "None"
       ELSE UNCHANGED <<pc, loop>>
    /\ stopped' = TRUE
    /\ UNCHANGED <<message_id, queueVars, cacheVars, storeVars, config,
                   notifications, initted, source, notes, logVars, last>>

(***************************************************************************)
(* The worker (the daemon's thread): it takes commands from send_queue in  *)
(* order, puts messages on receive_queue, answers only commands it has     *)
(* taken, and writes the store.                                            *)
(***************************************************************************)
Range(seq) == {seq[i] : i \in DOMAIN seq}

\* What the worker can put, with the accounts in P.
WorkerMessages(P) ==
    {UpdateDevicesMessage, UpdateUsersMessage, OtherMessage}
    \cup {UnverifiedDevicesSignal(p, r, n) : p \in P, r \in RoomIds, n \in RoomNames}
    \cup {InviteSasSignal(p, u, d, t) :
              p \in P, u \in UserIds, d \in DeviceIds, t \in TransactionIds}
    \cup {ShowSasSignal(p, u, d, t, e) :
              p \in P, u \in UserIds, d \in DeviceIds, t \in TransactionIds,
              e \in Emojis}
    \cup {SasDoneSignal(p, u, d, t) :
              p \in P, u \in UserIds, d \in DeviceIds, t \in TransactionIds}
    \cup {DaemonResponse(id, p, c, m) :
              id \in Range(taken), p \in P, c \in Codes, m \in Texts}

worker_get ==
    /\ send_queue # <<>>
    /\ taken' = Append(taken, Head(send_queue).message_id)
    /\ send_queue' = Tail(send_queue)
    /\ UNCHANGED <<message_id, receive_queue, unfinished, cacheVars, storeVars,
                   loopVars, notes, signals, handled, returned, nput, last>>

worker_put(message) ==
    /\ nput < MaxEvents
    /\ receive_queue' = Append(receive_queue, message)
    /\ unfinished' = unfinished + 1
    /\ nput' = nput + 1
    /\ UNCHANGED <<message_id, send_queue, cacheVars, storeVars, loopVars, notes,
                   signals, handled, returned, taken, last>>

store_write_users(server, value) ==
    /\ store_users[server] # value
    /\ store_users' = [store_users EXCEPT ![server] = value]
    /\ UNCHANGED <<message_id, queueVars, cacheVars, store_devices, boot_devices,
                   loopVars, notes, logVars, last>>

store_write_devices(value) ==
    /\ store_devices # value
    /\ store_devices' = value
    /\ UNCHANGED <<message_id, queueVars, cacheVars, store_users, boot_devices,
                   loopVars, notes, logVars, last>>

(***************************************************************************)
(* The whole system.                                                       *)
(***************************************************************************)
\* The command methods, called for the accounts in P.
ControlCommand(P) ==
    \/ \E p \in P, f \in FilePaths, w \in Passphrases : ExportKeys(p, f, w)
    \/ \E p \in P, f \in FilePaths, w \in Passphrases : ImportKeys(p, f, w)
    \/ \E p \in P, r \in RoomIds : SendAnyways(p, r)
    \/ \E p \in P, r \in RoomIds : CancelSending(p, r)

DevicesCommand(P) ==
    \/ \E p \in P, u \in UserIds, d \in DeviceIds : Verify(p, u, d)
    \/ \E p \in P, u \in UserIds, d \in DeviceIds : Unverify(p, u, d)
    \/ \E p \in P, u \in UserIds, d \in DeviceIds : Blacklist(p, u, d)
    \/ \E p \in P, u \in UserIds, d \in DeviceIds : Unblacklist(p, u, d)
    \/ \E p \in P, u \in UserIds, d \in DeviceIds : StartKeyVerification(p, u, d)
    \/ \E p \in P, u \in UserIds, d \in DeviceIds : CancelKeyVerification(p, u, d)
    \/ \E p \in P, u \in UserIds, d \in DeviceIds : ConfirmKeyVerification(p, u, d)
    \/ \E p \in P, u \in UserIds, d \in DeviceIds : AcceptKeyVerification(p, u, d)

Query ==
    \/ ListServers
    \/ \E p \in QueryAccounts : List(p)
    \/ \E p \in QueryAccounts, u \in QueryUsers : ListUserDevices(p, u)

Action ==
    \E i \in DOMAIN notes : \E key \in notes[i].actions : NotificationAction(i, key)

Worker ==
    \/ worker_get
    \/ \E message \in WorkerMessages(PanUsers) : worker_put(message)

Store ==
    \/ \E s \in ServerNames, v \in UserLists : store_write_users(s, v)
    \/ \E v \in DeviceStores : store_write_devices(v)

Next ==
    \/ ControlCommand(PanUsers)
    \/ DevicesCommand(PanUsers)
    \/ Query
    \/ Action
    \/ message_callback
    \/ run_setup
    \/ run_loop
    \/ stop
    \/ Worker
    \/ Store

Spec == Init /\ [][Next]_vars

(***************************************************************************)
(* Parts of the system, each with the inputs one group of properties is    *)
(* about.  The operations are the ones above; a part leaves out the        *)
(* callers that do not touch what it looks at.                             *)
(***************************************************************************)
\* alerts put by the worker while the control surface is exercised
MaxAlerts == 1

\* The store is empty and stays so.
InitQuiet ==
    /\ Init
    /\ store_users = [s \in ServerNames |-> <<>>]
    /\ store_devices = DevicesEmpty

\* The messages that lead back to the control surface: the three that raise a
\* notification with actions, and the answer to a command.
ControlMessages(P) ==
    {m \in WorkerMessages(P) :
        m.kind \in {"UnverifiedDevicesSignal", "InviteSasSignal", "ShowSasSignal",
                    "DaemonResponse"}}

\* Every command method, for two accounts, against a worker that may or may not
\* take what is queued, before, while and after the loop runs.
NextCommands ==
    \/ ControlCommand(PanUsers)
    \/ DevicesCommand(PanUsers)
    \/ run_setup
    \/ run_loop
    \/ stop
    \/ worker_get

SpecCommands == InitQuiet /\ [][NextCommands]_vars

\* Commands from the bus for one account and from notification actions for
\* another, answered by the worker.
NextControl ==
    \/ ControlCommand({"alice"})
    \/ DevicesCommand({"alice"})
    \/ Action
    \/ message_callback
    \/ run_setup
    \/ run_loop
    \/ worker_get
    \/ \E message \in ControlMessages({"bob"}) : nput < MaxAlerts /\ worker_put(message)

SpecControl == InitQuiet /\ [][NextControl]_vars

\* The dispatch loop over every kind of message, with the devices store changing.
NextDispatch ==
    \/ \E f \in FilePaths, w \in Passphrases : ExportKeys("alice", f, w)
    \/ Action
    \/ message_callback
    \/ run_setup
    \/ run_loop
    \/ worker_get
    \/ \E message \in WorkerMessages({"alice"}) : worker_put(message)
    \/ \E v \in DeviceStores : store_write_devices(v)

SpecDispatch == InitQuiet /\ [][NextDispatch]_vars

\* Any store at construction; notifications are not configured.
InitCache ==
    /\ Init
    /\ config = FALSE

\* The caches, the store behind them and the queries.
NextCache ==
    \/ Query
    \/ message_callback
    \/ run_setup
    \/ run_loop
    \/ \E message \in {UpdateDevicesMessage, UpdateUsersMessage} : worker_put(message)
    \/ Store

SpecCache == InitCache /\ [][NextCache]_vars

\* The queries among queued commands and undispatched messages.
NextQueries ==
    \/ \E f \in FilePaths, w \in Passphrases : ExportKeys("alice", f, w)
    \/ \E u \in UserIds, d \in DeviceIds : Verify("alice", u, d)
    \/ Query
    \/ \E message \in {UpdateDevicesMessage, UpdateUsersMessage} : worker_put(message)

SpecQueries == InitCache /\ [][NextQueries]_vars

\* Starting and stopping the loop from two threads, in any order, with commands
\* and messages in the queues.  GLib runs the tick while its source is attached
\* and the thread in run() goes on: these steps are weakly fair.
NextStop ==
    \/ \E f \in FilePaths, w \in Passphrases : ExportKeys("alice", f, w)
    \/ message_callback
    \/ run_setup
    \/ run_loop
    \/ stop
    \/ worker_get
    \/ \E message \in {UpdateDevicesMessage, OtherMessage} : worker_put(message)

SpecStop ==
    /\ InitQuiet
    /\ [][NextStop]_vars
    /\ WF_vars(run_setup)
    /\ WF_vars(run_loop)
    /\ WF_vars(message_callback)

\* The running loop draining what the worker puts.  GLib calls the tick every
\* 100 ms while its timeout source is attached: the tick is weakly fair, and so
\* are the steps of the thread in run().
NextDrain ==
    \/ message_callback
    \/ run_setup
    \/ run_loop
    \/ \E message \in WorkerMessages({"alice"}) : worker_put(message)

SpecDrain ==
    /\ InitQuiet
    /\ [][NextDrain]_vars
    /\ WF_vars(run_setup)
    /\ WF_vars(run_loop)
    /\ WF_vars(message_callback)

\* Everything that could touch a cache: a command, a notification action, the
\* tick on an update message and on another message, and the store changing.
NextFrame ==
    \/ \E f \in FilePaths, w \in Passphrases : ExportKeys("alice", f, w)
    \/ Action
    \/ message_callback
    \/ run_setup
    \/ run_loop
    \/ \E message \in {UpdateDevicesMessage, UpdateUsersMessage,
                       InviteSasSignal("alice", "@u", "DEV", "txn")} :
           worker_put(message)
    \/ Store

SpecFrame == InitQuiet /\ [][NextFrame]_vars

(***************************************************************************)
(* Properties.                                                             *)
(***************************************************************************)
\* The names of a sequence of emitted signals.
SignalNames(seq) == [i \in DOMAIN seq |-> seq[i].name]

\* The signal names a sequence of dispatched messages must have produced.
RECURSIVE RelayedNames(_)
RelayedNames(seq) ==
    IF seq = <<>> THEN <<>>
    ELSE (CASE seq[1].kind = "UnverifiedDevicesSignal" -> <<"UnverifiedDevices">>
            [] seq[1].kind = "InviteSasSignal" -> <<"VerificationInvite">>
            [] seq[1].kind = "ShowSasSignal" -> <<"VerificationString">>
            [] seq[1].kind = "SasDoneSignal" -> <<"VerificationDone">>
            [] seq[1].kind = "DaemonResponse" -> <<"Response">>
            [] OTHER -> <<>>) \o RelayedNames(Tail(seq))

\* A tick that finds a message of the given kind at the head of receive_queue.
Dispatches(kind) ==
    /\ message_callback
    /\ receive_queue # <<>>
    /\ Head(receive_queue).kind = kind

----------------------------------------------------------------------------
\* C1: the ids returned by N command calls (Control methods, Devices methods
\* and notification action callbacks, in any mix) are 0, 1, ..., N-1 in call
\* order: one counter serves both interfaces, no id is returned twice or skipped.
C1_IdsInCallOrder ==
    /\ \A i \in DOMAIN returned : returned[i] = i - 1
    /\ message_id = Len(returned)

\* A Control call got 0 and a notification action, through Devices, got 1.
C1_Witness ==
    /\ returned = <<0, 1>>
    /\ send_queue = <<ExportKeysMessage(0, "alice", "/k", "pw"),
                      AcceptSasMessage(1, "bob", "@u", "DEV")>>

----------------------------------------------------------------------------
\* What one call of a command method must do: append one message of the
\* method's kind with the caller's fields, and return the id in that message.
Enqueues(message, id) ==
    /\ message.message_id = id
    /\ send_queue' = Append(send_queue, message)
    /\ returned' = Append(returned, id)

C2_Enabled ==
    /\ \A p \in PanUsers, f \in FilePaths, w \in Passphrases :
          /\ ENABLED ExportKeys(p, f, w)
          /\ ENABLED ImportKeys(p, f, w)
    /\ \A p \in PanUsers, r \in RoomIds :
          /\ ENABLED SendAnyways(p, r)
          /\ ENABLED CancelSending(p, r)
    /\ \A p \in PanUsers, u \in UserIds, d \in DeviceIds :
          /\ ENABLED Verify(p, u, d)
          /\ ENABLED Unverify(p, u, d)
          /\ ENABLED Blacklist(p, u, d)
          /\ ENABLED Unblacklist(p, u, d)
          /\ ENABLED StartKeyVerification(p, u, d)
          /\ ENABLED CancelKeyVerification(p, u, d)
          /\ ENABLED AcceptKeyVerification(p, u, d)
          /\ ENABLED ConfirmKeyVerification(p, u, d)

C2_Step ==
    \E id \in 0..MaxId :
        /\ \A p \in PanUsers, f \in FilePaths, w \in Passphrases :
              /\ ExportKeys(p, f, w) => Enqueues(ExportKeysMessage(id, p, f, w), id)
              /\ ImportKeys(p, f, w) => Enqueues(ImportKeysMessage(id, p, f, w), id)
        /\ \A p \in PanUsers, r \in RoomIds :
              /\ SendAnyways(p, r) => Enqueues(SendAnywaysMessage(id, p, r), id)
              /\ CancelSending(p, r) => Enqueues(CancelSendingMessage(id, p, r), id)
        /\ \A p \in PanUsers, u \in UserIds, d \in DeviceIds :
              /\ Verify(p, u, d) => Enqueues(DeviceVerifyMessage(id, p, u, d), id)
              /\ Unverify(p, u, d) => Enqueues(DeviceUnverifyMessage(id, p, u, d), id)
              /\ Blacklist(p, u, d) => Enqueues(DeviceBlacklistMessage(id, p, u, d), id)
              /\ Unblacklist(p, u, d) =>
                    Enqueues(DeviceUnblacklistMessage(id, p, u, d), id)
              /\ StartKeyVerification(p, u, d) =>
                    Enqueues(StartSasMessage(id, p, u, d), id)
              /\ CancelKeyVerification(p, u, d) =>
                    Enqueues(CancelSasMessage(id, p, u, d), id)
              /\ AcceptKeyVerification(p, u, d) =>
                    Enqueues(AcceptSasMessage(id, p, u, d), id)
              /\ ConfirmKeyVerification(p, u, d) =>
                    Enqueues(ConfirmSasMessage(id, p, u, d), id)

\* C2: in every reachable state, whatever is waiting in send_queue and whether
\* or not the worker takes anything, each of the twelve command methods can be
\* called (while the exploration's cap on the counter is not reached); the call
\* appends exactly one message of the method's kind with the caller's fields to
\* the tail of send_queue and returns the id that message carries.
C2_CommandsEnqueue ==
    /\ [](message_id < MaxId => C2_Enabled)
    /\ [][C2_Step]_vars

\* Unverify was called with one command already waiting and none taken.
C2_Witness ==
    /\ taken = <<>>
    /\ Len(send_queue) = 2
    /\ send_queue[2] = DeviceUnverifyMessage(1, "bob", "@u", "DEV")
    /\ returned[2] = send_queue[2].message_id

----------------------------------------------------------------------------
\* C3: the tick that takes a DaemonResponse with id X emits exactly one signal,
\* Response, with id X and the message's pan_user, code and message; and, the
\* worker answering only commands it took from send_queue, X is an id a command
\* call returned before.
C3_ResponseSignal ==
    [][Dispatches("DaemonResponse") =>
          LET message == Head(receive_queue)
          IN  /\ signals' = Append(signals,
                                   [name |-> "Response",
                                    id |-> message.message_id,
                                    pan_user |-> message.pan_user,
                                    message |-> [code |-> message.code,
                                                 message |-> message.message]])
              /\ \E i \in DOMAIN returned : returned[i] = message.message_id]_vars

\* The answer to the second of two commands has been relayed.
C3_Witness ==
    /\ returned = <<0, 1>>
    /\ signals = <<[name |-> "Response", id |-> 1, pan_user |-> "bob",
                    message |-> [code |-> "m.ok", message |-> "done"]]>>

----------------------------------------------------------------------------
\* What one tick does to the queue and to what is visible outside.
C4_TickEffect ==
    IF receive_queue = <<>>
    THEN UNCHANGED <<receive_queue, handled, signals, users, device_list>>
    ELSE LET message == Head(receive_queue)
         IN  /\ receive_queue' = Tail(receive_queue)
             /\ handled' = Append(handled, message)
             /\ SignalNames(signals') =
                    SignalNames(signals) \o RelayedNames(<<message>>)
             /\ message.kind = "UpdateDevicesMessage" =>
                    device_list' = store_devices
             /\ message.kind # "UpdateDevicesMessage" =>
                    device_list' = device_list

\* What any other step leaves alone: it takes nothing from receive_queue (the
\* worker may add at the tail) and handles nothing.
C4_NoTickEffect ==
    /\ handled' = handled
    /\ signals' = signals
    /\ \/ receive_queue' = receive_queue
       \/ /\ Len(receive_queue') = Len(receive_queue) + 1
          /\ SubSeq(receive_queue', 1, Len(receive_queue)) = receive_queue

\* Every tick has the effect of a tick; every other step has none of it.
C4_Step ==
    /\ C4_TickEffect \/ ~message_callback
    /\ C4_NoTickEffect \/ message_callback

\* C4: a tick takes at most one message, the oldest.  With K messages queued
\* and T < K ticks without new arrivals, exactly the first T messages, in queue
\* order, have been handled (their signals emitted, their cache updates made)
\* and the other K-T are still queued in their order.
C4_OnePerTickInOrder ==
    /\ [](SignalNames(signals) = RelayedNames(handled))
    /\ [][C4_Step]_vars

\* Two messages were queued, one tick ran: the first is handled and relayed,
\* the second still waits.
C4_Witness ==
    /\ nput = 2
    /\ handled = <<InviteSasSignal("alice", "@u", "DEV", "txn")>>
    /\ receive_queue = <<UpdateDevicesMessage>>
    /\ SignalNames(signals) = <<"VerificationInvite">>

----------------------------------------------------------------------------
\* C5: once the tick that takes an UpdateUsersMessage has run, ListServers
\* returns exactly what the store holds: every entry equals the store's entry
\* and none is left from an earlier, different content of the store.
C5_LatestSnapshot ==
    [][Dispatches("UpdateUsersMessage") =>
          /\ users' = store_users'
          /\ ListServers_ret'.val = store_users']_vars

----------------------------------------------------------------------------
NoDevicesUpdateYet ==
    \A i \in DOMAIN handled : handled[i].kind # "UpdateDevicesMessage"

\* The records List must return for an account, given the devices the store
\* or the cache holds: the devices of all the account's users, in order.
DevicesOf(devices, pan_user) ==
    IF devices = DevicesSome /\ pan_user = "alice"
    THEN <<DeviceRecord("@u", "D1", "verified"), DeviceRecord("@u", "D2", "unset"),
           DeviceRecord("@w", "D3", "blacklisted")>>
    ELSE <<>>

\* C6, as stated: before any UpdateDevicesMessage has been dispatched, List
\* returns an empty sequence, without error, for any account.
C6_EmptyBeforeUpdate ==
    NoDevicesUpdateYet =>
        \A p \in QueryAccounts : List_ret(p) = Outcome("none", <<>>)

\* C6, as the code has it: before any UpdateDevicesMessage has been dispatched,
\* List returns, without error, the devices the store held for the account when
\* the interface was constructed (Devices.__init__ loads them), whatever the
\* store holds now and whatever else was dispatched; the result is empty when
\* the store held none for the account.
C6_BootDevicesBeforeUpdate ==
    NoDevicesUpdateYet =>
        /\ \A p \in QueryAccounts :
              List_ret(p) = Outcome("none", DevicesOf(boot_devices, p))
        /\ last.op = "List" => last.exc = "none"

\* List("alice") returned the devices loaded at construction, after the store
\* changed and another message was dispatched, but no UpdateDevicesMessage.
C6_Witness ==
    /\ NoDevicesUpdateYet
    /\ handled # <<>>
    /\ store_devices # boot_devices
    /\ last.op = "List"
    /\ last.args = <<"alice">>
    /\ last.val = PyList(DevicesOf(DevicesSome, "alice"))

----------------------------------------------------------------------------
\* The records ListUserDevices must return for a user of an account.
UserDevicesOf(devices, pan_user, user_id) ==
    IF devices = DevicesSome /\ pan_user = "alice" /\ user_id = "@u"
    THEN <<DeviceRecord("@u", "D1", "verified"), DeviceRecord("@u", "D2", "unset")>>
    ELSE IF devices = DevicesSome /\ pan_user = "alice" /\ user_id = "@w"
    THEN <<DeviceRecord("@w", "D3", "blacklisted")>>
    ELSE <<>>

\* C7: in every reachable state List with an account the cache does not have,
\* and ListUserDevices with an account or a user it does not have, return an
\* empty sequence and raise nothing; List with an account it has returns the
\* device records of all its users, and ListUserDevices with a user it has
\* returns that user's device records.
C7_QueriesTolerateAbsence ==
    /\ device_list \in DeviceStores
    /\ \A p \in QueryAccounts :
          /\ List_ret(p) = Outcome("none", DevicesOf(device_list, p))
          /\ \A u \in QueryUsers \cup {"@w"} :
                ListUserDevices_ret(p, u) =
                    Outcome("none", UserDevicesOf(device_list, p, u))
    /\ last.op \in {"List", "ListUserDevices"} => last.exc = "none"

\* ListUserDevices was called for a user the account does not have.
C7_Witness ==
    /\ device_list = DevicesSome
    /\ last.op = "ListUserDevices"
    /\ last.args = <<"alice", "@x">>
    /\ last.exc = "none"
    /\ last.val = PyList(<<>>)

----------------------------------------------------------------------------
\* C8: ListServers, List and ListUserDevices enqueue nothing: each leaves
\* send_queue, receive_queue, the id counter and both caches as they were.
C8_QueriesChangeNothing ==
    [][Query => UNCHANGED <<send_queue, receive_queue, unfinished, message_id,
                            users, device_list>>]_vars

\* List was called for an account the cache does not have, with a command and
\* a message waiting in the queues.
C8_Witness ==
    /\ last.op = "List"
    /\ last.args = <<"carol">>
    /\ device_list = DevicesSome
    /\ send_queue # <<>>
    /\ receive_queue # <<>>
    /\ message_id > 0

----------------------------------------------------------------------------
\* The command an action of a notification must enqueue, e being the message
\* the notification was raised for.
ActionCommand(e, key, id) ==
    CASE e.kind = "UnverifiedDevicesSignal" /\ key = "send" ->
             SendAnywaysMessage(id, e.pan_user, e.room_id)
      [] e.kind = "UnverifiedDevicesSignal" /\ key = "cancel" ->
             CancelSendingMessage(id, e.pan_user, e.room_id)
      [] e.kind = "InviteSasSignal" /\ key = "accept" ->
             AcceptSasMessage(id, e.pan_user, e.user_id, e.device_id)
      [] e.kind = "InviteSasSignal" /\ key = "cancel" ->
             CancelSasMessage(id, e.pan_user, e.user_id, e.device_id)
      [] e.kind = "ShowSasSignal" /\ key = "confirm" ->
             ConfirmSasMessage(id, e.pan_user, e.user_id, e.device_id)
      [] e.kind = "ShowSasSignal" /\ key = "cancel" ->
             CancelSasMessage(id, e.pan_user, e.user_id, e.device_id)

\* C9: an action of a notification enqueues exactly one command, built from
\* the fields of the message the notification was raised for, with an id no
\* call returned before: send -> SendAnyways and cancel -> CancelSending (account
\* and room) for UnverifiedDevices; accept -> AcceptSas and cancel -> CancelSas
\* for InviteSas; confirm -> ConfirmSas and cancel -> CancelSas for ShowSas
\* (account, user and device).
C9_ActionsEnqueue ==
    [][\A i \in DOMAIN notes : \A key \in notes[i].actions :
          NotificationAction(i, key) =>
              LET e == notes[i].user_data
              IN  /\ \E j \in DOMAIN handled : handled[j] = e
                  /\ \E id \in 0..MaxId :
                        /\ \A j \in DOMAIN returned : returned[j] # id
                        /\ returned' = Append(returned, id)
                        /\ send_queue' = Append(send_queue, ActionCommand(e, key, id))]_vars

\* After a direct command, cancel was picked on the notification of bob's
\* emoji verification.
C9_Witness ==
    /\ handled = <<ShowSasSignal("bob", "@u", "DEV", "txn",
                                 << <<"e1", "Dog">>, <<"e2", "Cat">> >>)>>
    /\ notes = <<>>
    /\ Len(send_queue) = 2
    /\ send_queue[2] = CancelSasMessage(1, "bob", "@u", "DEV")

----------------------------------------------------------------------------
\* run() is past notify2.init and found no notification server although
\* notifications are configured, or notifications are not configured.
NoNotifications ==
    \/ config /\ pc # "start" /\ ~initted
    \/ ~config

\* What a tick that takes a message does when nothing is to be shown: the
\* signal of the message, the cache update of the message, task_done.
C10_TickEffect ==
    \/ receive_queue = <<>>
    \/ LET message == Head(receive_queue)
       IN  /\ handled' = Append(handled, message)
           /\ SignalNames(signals') =
                  SignalNames(signals) \o RelayedNames(<<message>>)
           /\ unfinished' = unfinished - 1
           /\ notes' = notes
           /\ source' = source
           /\ message.kind = "UpdateDevicesMessage" => device_list' = store_devices
           /\ message.kind = "UpdateUsersMessage" =>
                 \A s \in ServerNames : users'[s] \in {store_users[s], store_users'[s]}

\* C10: when notifications are configured but run() finds no notification
\* server (notify2.init raises DBusException), GlibT.notifications is false in
\* every later state, no tick shows a notification or raises, and the signals
\* and cache updates go on for every dispatched message; and when notifications
\* are not configured the flag is never true.
C10_NotificationsStayOff ==
    /\ [](NoNotifications =>
             /\ ~notifications
             /\ notes = <<>>
             /\ last.op = "message_callback" => last.exc = "none"
             /\ pc = "looping" => source
             /\ SignalNames(signals) = RelayedNames(handled)
             /\ unfinished = Len(receive_queue))
    /\ [][(NoNotifications /\ ~C10_TickEffect) => ~message_callback]_vars

\* Configured, no server found: an invitation was relayed and the devices cache
\* reloaded, nothing shown, the tick still scheduled.
C10_Witness ==
    /\ config
    /\ ~initted
    /\ source
    /\ handled = <<InviteSasSignal("alice", "@u", "DEV", "txn"), UpdateDevicesMessage>>
    /\ SignalNames(signals) = <<"VerificationInvite">>
    /\ device_list = DevicesSome
    /\ last = Call("message_callback", "none", PyTrue)

----------------------------------------------------------------------------
\* The kinds message_callback has a branch for.
KnownKinds ==
    {"UpdateDevicesMessage", "UpdateUsersMessage", "UnverifiedDevicesSignal",
     "InviteSasSignal", "ShowSasSignal", "SasDoneSignal", "DaemonResponse"}

UnknownAtHead ==
    /\ receive_queue # <<>>
    /\ Head(receive_queue).kind \notin KnownKinds

\* What the tick does with a message of an unknown kind.
C11_Ignored ==
    /\ receive_queue' = Tail(receive_queue)
    /\ handled' = Append(handled, Head(receive_queue))
    /\ unfinished' = unfinished - 1
    /\ UNCHANGED <<signals, notes, users, device_list, send_queue, message_id, source>>
    /\ last' = Call("message_callback", "none", PyTrue)

\* C11: a message whose kind is none of the seven message_callback knows is
\* ignored without a crash: the tick takes it from receive_queue, emits no
\* signal, shows no notification, leaves both caches, send_queue and the id
\* counter as they were and returns True, so later messages are dispatched.
C11_UnknownKindIgnored ==
    [][(UnknownAtHead /\ ~C11_Ignored) => ~message_callback]_vars

\* With notifications on, an unknown message was taken and the message behind
\* it was dispatched by the next tick.
C11_Witness ==
    /\ notifications
    /\ handled = <<OtherMessage, UpdateDevicesMessage>>
    /\ signals = <<>>
    /\ notes = <<>>
    /\ unfinished = 0
    /\ source
    /\ last = Call("message_callback", "none", PyTrue)

----------------------------------------------------------------------------
\* C12: once stop() has been called, in whatever order with run() starting
\* the loop in the other thread, the loop eventually exits and no tick runs
\* afterwards.
C12_StopEndsLoop ==
    /\ stopped ~> (pc = "exited")
    /\ [][stopped => ~message_callback]_vars

----------------------------------------------------------------------------
\* What stop() leaves as it was.
C13_Frame ==
    UNCHANGED <<send_queue, receive_queue, unfinished, message_id, users, device_list>>

\* C13: stop() neither drains nor discards: the contents and order of
\* send_queue and of receive_queue, the id counter and both caches are as
\* before; a command queued before stop() is still in send_queue afterwards
\* unless the worker took it.
C13_StopLeavesQueues ==
    /\ [](\A i \in DOMAIN returned :
             \/ \E j \in DOMAIN taken : taken[j] = returned[i]
             \/ \E j \in DOMAIN send_queue : send_queue[j].message_id = returned[i])
    /\ [][~C13_Frame => ~stop]_vars

\* The loop was stopped with one command taken by the worker, one still
\* queued, and a message waiting in receive_queue.
C13_Witness ==
    /\ stopped
    /\ pc = "exited"
    /\ returned = <<0, 1>>
    /\ taken = <<0>>
    /\ send_queue = <<ExportKeysMessage(1, "alice", "/k", "pw")>>
    /\ receive_queue = <<UpdateDevicesMessage>>

----------------------------------------------------------------------------
SignallingKinds ==
    {"UnverifiedDevicesSignal", "InviteSasSignal", "ShowSasSignal", "SasDoneSignal",
     "DaemonResponse"}

\* The signals one dispatched message must be relayed as: name and fields.
C14_Relayed(m) ==
    CASE m.kind = "UnverifiedDevicesSignal" ->
             <<[name |-> "UnverifiedDevices", pan_user |-> m.pan_user,
                room_id |-> m.room_id, room_display_name |-> m.room_display_name]>>
      [] m.kind = "InviteSasSignal" ->
             <<[name |-> "VerificationInvite", pan_user |-> m.pan_user,
                user_id |-> m.user_id, device_id |-> m.device_id,
                transaction_id |-> m.transaction_id]>>
      [] m.kind = "ShowSasSignal" ->
             <<[name |-> "VerificationString", pan_user |-> m.pan_user,
                user_id |-> m.user_id, device_id |-> m.device_id,
                transaction_id |-> m.transaction_id, emoji |-> m.emoji]>>
      [] m.kind = "SasDoneSignal" ->
             <<[name |-> "VerificationDone", pan_user |-> m.pan_user,
                user_id |-> m.user_id, device_id |-> m.device_id,
                transaction_id |-> m.transaction_id]>>
      [] m.kind = "DaemonResponse" ->
             <<[name |-> "Response", id |-> m.message_id, pan_user |-> m.pan_user,
                message |-> [code |-> m.code, message |-> m.message]]>>
      [] OTHER -> <<>>

RECURSIVE C14_RelayedAll(_)
C14_RelayedAll(seq) ==
    IF seq = <<>> THEN <<>> ELSE C14_Relayed(seq[1]) \o C14_RelayedAll(Tail(seq))

\* C14: every dispatched message is relayed as exactly one signal of the
\* documented name and fields, with notifications on or off; UpdateUsers and
\* UpdateDevices emit none; nothing is relayed twice, so the signals emitted
\* are as many as the dispatched messages of the five signalling kinds.
C14_OneSignalPerEvent ==
    /\ [](/\ signals = C14_RelayedAll(handled)
          /\ Len(signals) =
                Cardinality({i \in DOMAIN handled : handled[i].kind \in SignallingKinds}))
    /\ [][(/\ receive_queue # <<>>
           /\ signals' # signals \o C14_Relayed(Head(receive_queue)))
              => ~message_callback]_vars

\* With notifications on, the emoji of a verification were relayed in order
\* and an UpdateUsersMessage after it emitted nothing.
C14_Witness ==
    /\ notifications
    /\ handled = <<ShowSasSignal("alice", "@u", "DEV", "txn",
                                 << <<"e1", "Dog">>, <<"e2", "Cat">> >>),
                   UpdateUsersMessage>>
    /\ signals = <<[name |-> "VerificationString", pan_user |-> "alice",
                    user_id |-> "@u", device_id |-> "DEV", transaction_id |-> "txn",
                    emoji |-> << <<"e1", "Dog">>, <<"e2", "Cat">> >>]>>

----------------------------------------------------------------------------
\* The task_done() calls made so far: the queue's unfinished count is the puts
\* minus the task_done calls.
ProcessedMarks == nput - unfinished

\* C15: every message taken from receive_queue is marked processed (task_done)
\* exactly once, in the tick that took it, whatever its kind and also when
\* handling it fails; a tick that finds the queue empty marks nothing.  So at
\* every tick boundary the marks are as many as the messages taken, and a
\* producer joining the queue is released once all its messages are dispatched.
C15_ProcessedOncePerEvent ==
    /\ [](/\ ProcessedMarks = Len(handled)
          /\ receive_queue = <<>> => unfinished = 0)
    /\ [][(/\ ProcessedMarks' # ProcessedMarks + (IF receive_queue = <<>> THEN 0 ELSE 1))
              => ~message_callback]_vars

----------------------------------------------------------------------------
\* The loop is in loop.run() with the tick's timeout source attached.
TickScheduled == pc = "looping" /\ source

\* What a tick on an empty queue does: it returns True and nothing else.
C16_Nothing ==
    /\ UNCHANGED <<message_id, send_queue, receive_queue, unfinished, users,
                   device_list, signals, notes, handled, source, pc>>
    /\ last' = Call("message_callback", "none", PyTrue)

----------------------------------------------------------------------------
\* C17: while the loop runs and is not stopped, ticks being scheduled fairly,
\* every message the worker puts on receive_queue is eventually dispatched: a
\* backlog of K messages is drained by K ticks, one each, and no message is
\* lost or stays queued forever.
C17_EveryEventDispatched ==
    /\ [](Len(handled) + Len(receive_queue) = nput)
    /\ \A n \in 1..MaxEvents :
          (pc = "looping" /\ ~stopped /\ nput >= n) ~> (Len(handled) >= n)

----------------------------------------------------------------------------
StrictlyIncreasing(ids) ==
    \A i, j \in DOMAIN ids : i < j => ids[i] < ids[j]

\* C18: commands reach the worker in the order they were issued: the ids of
\* the messages in send_queue increase strictly from head to tail, and so do
\* the ids the worker takes, also when commands issued by notification action
\* callbacks come between direct calls.
C18_CommandsInOrder ==
    /\ StrictlyIncreasing([i \in DOMAIN send_queue |-> send_queue[i].message_id])
    /\ StrictlyIncreasing(taken)
    /\ StrictlyIncreasing(taken \o [i \in DOMAIN send_queue |-> send_queue[i].message_id])

\* A command from a notification action waits ahead of a direct call, and the
\* worker has taken neither.
C18_Witness ==
    /\ taken = <<>>
    /\ Len(send_queue) = 2
    /\ send_queue[1].pan_user = "bob"
    /\ send_queue[2].pan_user = "alice"
    /\ send_queue[1].message_id = 0

----------------------------------------------------------------------------
\* The contents the store goes through while one update_users runs with the
\* worker's writes `gaps` falling between its loads.
SnapshotsDuring(st, gaps) ==
    LET ws == Concat(gaps)
    IN  {ApplyWrites(st, SubSeq(ws, 1, k)) : k \in 0..Len(ws)}

\* Some run of update_users that makes this step leaves a users cache the
\* store never held.
C19_MixedUsers ==
    \E gaps \in GapPlans :
        /\ update_users(gaps).users = users'
        /\ update_users(gaps).store = store_users'
        /\ users' \notin SnapshotsDuring(store_users, gaps)

\* C19: each cache is always a full replacement by one snapshot of the store:
\* the users cache equals the store's users as they were at one single moment
\* (construction or the dispatch of an UpdateUsersMessage), the devices cache
\* the store's devices as they were at construction or at the dispatch of an
\* UpdateDevicesMessage; also when the worker changes the store while a rebuild
\* runs, a cache is never a mix of two snapshots.
C19_SingleSnapshot ==
    /\ [][(/\ receive_queue # <<>>
           /\ \/ /\ Head(receive_queue).kind = "UpdateUsersMessage"
                 /\ C19_MixedUsers
              \/ /\ Head(receive_queue).kind = "UpdateDevicesMessage"
                 /\ device_list' # store_devices
              \/ /\ Head(receive_queue).kind # "UpdateUsersMessage"
                 /\ users' # users
              \/ /\ Head(receive_queue).kind # "UpdateDevicesMessage"
                 /\ device_list' # device_list)
              => ~message_callback]_vars
    /\ [][(users' # users \/ device_list' # device_list) => message_callback]_vars

----------------------------------------------------------------------------
\* The tick takes a message of the given kind.
TickOn(kind) ==
    /\ receive_queue # <<>>
    /\ Head(receive_queue).kind = kind
    /\ message_callback

\* C20: the caches change only when the tick handles the matching message.
\* Command methods, notification actions and the dispatch of any other message
\* leave both as they were; UpdateUsersMessage leaves the devices cache and
\* UpdateDevicesMessage the users cache as it was; a change of the store alone
\* does not change what the queries return until the matching message is
\* dispatched.
C20_CachesChangeOnEventOnly ==
    [][/\ users' # users => TickOn("UpdateUsersMessage")
       /\ device_list' # device_list => TickOn("UpdateDevicesMessage")
       /\ (/\ store_devices' # store_devices \/ store_users' # store_users
           /\ \/ \E p \in QueryAccounts : List_ret(p)' # List_ret(p)
              \/ ListServers_ret' # ListServers_ret)
              => TickOn("UpdateUsersMessage")]_vars

\* The store got devices the cache has not: an UpdateUsersMessage and an
\* invitation were dispatched, and accept was picked on the notification.
C20_Witness ==
    /\ store_devices = DevicesSome
    /\ device_list = DevicesEmpty
    /\ List_ret("alice").val = <<>>
    /\ handled = <<UpdateUsersMessage, InviteSasSignal("alice", "@u", "DEV", "txn")>>
    /\ send_queue = <<AcceptSasMessage(0, "alice", "@u", "DEV")>>

----------------------------------------------------------------------------
\* The Response signals emitted so far.
Responses == {i \in DOMAIN signals : signals[i].name = "Response"}

\* C21: no response precedes its command.  The worker answering only commands
\* it has taken from send_queue, every Response signal carries an id strictly
\* below the counter's current value, and at the tick that emits it the id had
\* already been returned to the caller of a command (and was below the counter
\* then).
C21_NoResponseBeforeCommand ==
    /\ [](\A i \in Responses :
             /\ signals[i].id < message_id
             /\ signals[i].id \in Range(returned))
    /\ [][\A i \in Responses' \ Responses :
             /\ signals'[i].id < message_id
             /\ signals'[i].id \in Range(returned)
             /\ Dispatches("DaemonResponse")]_vars

\* The first of two commands has been answered and the answer relayed.
C21_Witness ==
    /\ message_id = 2
    /\ returned = <<0, 1>>
    /\ taken = <<0>>
    /\ \E i \in Responses : signals[i].id = 0

----------------------------------------------------------------------------
ActionKeys == {"send", "cancel", "accept", "confirm"}

\* What a notification is rendered with when the server lacks the 'actions'
\* capability, and what a SasDone notification is rendered with on any server:
\* no action at all.
C22_ActionlessRendering ==
    \A message \in WorkerMessages({"alice"}), srv \in Servers :
        (srv # "actions" \/ message.kind = "SasDoneSignal")
            => \A i \in DOMAIN Notified(message, srv).notes :
                   Notified(message, srv).notes[i].actions = {}

\* C22: a tick by itself never issues a command.  For every kind of message,
\* with notifications on or off, message_callback leaves send_queue, the id
\* counter and the ids returned as they were.  A command that is not called
\* over the bus comes from the user picking an action of a notification, which
\* the step closes.  A notification rendered without the 'actions' capability,
\* or for SasDoneSignal, has no action, and no pick on a notification without
\* actions is possible.
C22_TickIssuesNoCommand ==
    /\ [][(send_queue' # send_queue \/ message_id' # message_id
                \/ returned' # returned) => ~message_callback]_vars
    /\ [][(/\ Len(send_queue') > Len(send_queue)
           /\ send_queue'[Len(send_queue')].kind # "ExportKeysMessage") => Action]_vars
    /\ [](/\ C22_ActionlessRendering
          /\ \A i \in DOMAIN notes :
                 /\ notes[i].kind = "sas_done" => notes[i].actions = {}
                 /\ notes[i].actions = {} =>
                        \A key \in ActionKeys : ~ENABLED NotificationAction(i, key))

\* With notifications on, a verification was reported done and an invitation
\* shown with its actions; no command has been issued.
C22_Witness ==
    /\ notifications
    /\ handled = <<SasDoneSignal("alice", "@u", "DEV", "txn"),
                   InviteSasSignal("alice", "@u", "DEV", "txn")>>
    /\ Len(notes) = 2
    /\ notes[1].actions = {}
    /\ notes[2].actions = {"accept", "cancel"}
    /\ send_queue = <<>>
    /\ message_id = 0
    /\ returned = <<>>

====
